---- MODULE Spec2Model ----
(***************************************************************************)
(* Model of app/utils/map_utils.py: the Geoapify route-geometry fetcher    *)
(* (get_route_geometry) and the map renderers that call it                 *)
(* (display_route_on_map, display_route_map,                               *)
(* display_multiple_routes_on_map), and the helpers get_vehicle_type,      *)
(* get_color_for_route, get_line_style and extract_route_coordinates,      *)
(* each also called directly on a bounded set of arguments.                *)
(*                                                                         *)
(* Python strings whose characters matter (vehicle models and categories)  *)
(* are sequences of one-character strings, so that str.lower() and the     *)
(* `in` substring test are computed and not assumed.  JSON values are      *)
(* records; a dict key that may be absent is listed in a `keys` field.     *)
(***************************************************************************)
EXTENDS Integers, Sequences, FiniteSets, TLC

\* ---------------------------------------------------------------- bounds
MaxRoutes == 2
MaxIndex == 24

\* ------------------------------------------------------- program constants
max_retries == 3
initial_retry_delay == 2
request_timeout == 10

\* ------------------------------------------------------------ generic helpers
Min(a, b) == IF a < b THEN a ELSE b

RECURSIVE SumSeq(_)
SumSeq(s) == IF s = <<>> THEN 0 ELSE Head(s) + SumSeq(Tail(s))

\* ------------------------------------------------------------------ strings
UpperChars == <<"A","B","C","D","E","F","G","H","I","J","K","L","M","N","O","P","Q",
                "R","S","T","U","V","W","X","Y","Z","Ô","Ã">>
LowerChars == <<"a","b","c","d","e","f","g","h","i","j","k","l","m","n","o","p","q",
                "r","s","t","u","v","w","x","y","z","ô","ã">>

LowerChar(c) ==
    IF \E k \in 1..Len(UpperChars) : UpperChars[k] = c
    THEN LowerChars[CHOOSE k \in 1..Len(UpperChars) : UpperChars[k] = c]
    ELSE c

\* str.lower()
Lower(s) == [k \in 1..Len(s) |-> LowerChar(s[k])]

\* kw in s  (substring test)
Contains(s, kw) ==
    \E k \in 0..(Len(s) - Len(kw)) : SubSeq(s, k + 1, k + Len(kw)) = kw

AnyKeyword(s, kws) == \E kw \in kws : Contains(s, kw)

W_car        == <<"c","a","r">>
W_bus        == <<"b","u","s">>
W_van        == <<"v","a","n">>
W_truck      == <<"t","r","u","c","k">>
W_motorcycle == <<"m","o","t","o","r","c","y","c","l","e">>

BusKeywords   == { <<"ô","n","i","b","u","s">>, <<"o","n","i","b","u","s">>, W_bus }
VanKeywords   == { W_van, <<"s","p","r","i","n","t">>, <<"d","u","c","a","t","o">>,
                   <<"b","o","x","e","r">>, <<"k","o","m","b","i">> }
TruckKeywords == { <<"c","a","m","i","n","h","ã","o">>, <<"c","a","m","i","n","h","a","o">>,
                   W_truck }
MotoKeywords  == { <<"m","o","t","o">>, <<"b","i","k","e">>, W_motorcycle }

\* A Python value that is a str or None.
StrVal(s) == [isStr |-> TRUE, chars |-> s]
NoneStr   == [isStr |-> FALSE, chars |-> <<>>]

\* get_vehicle_type(vehicle_model): the category as a character sequence.
get_vehicle_type_VanFirst(vehicle_model) ==
    LET m == IF vehicle_model.isStr /\ vehicle_model.chars # <<>>
             THEN Lower(vehicle_model.chars) ELSE <<>>
    IN  IF AnyKeyword(m, VanKeywords) THEN W_van
        ELSE IF AnyKeyword(m, BusKeywords) THEN W_bus
        ELSE IF AnyKeyword(m, TruckKeywords) THEN W_truck
        ELSE IF AnyKeyword(m, MotoKeywords) THEN W_motorcycle
        ELSE W_car
get_vehicle_type(vehicle_model) ==
    LET m == IF vehicle_model.isStr /\ vehicle_model.chars # <<>>
             THEN Lower(vehicle_model.chars) ELSE <<>>
    IN  IF AnyKeyword(m, BusKeywords) THEN W_bus
        ELSE IF AnyKeyword(m, VanKeywords) THEN W_van
        ELSE IF AnyKeyword(m, TruckKeywords) THEN W_truck
        ELSE IF AnyKeyword(m, MotoKeywords) THEN W_motorcycle
        ELSE W_car

\* DISTINCT_COLORS, the palette
DISTINCT_COLORS ==
    << "#3366CC", "#DC3912", "#FF9900", "#109618", "#990099",
       "#0099C6", "#DD4477", "#66AA00", "#B82E2E", "#316395",
       "#994499", "#22AA99", "#AAAA11", "#6633CC", "#E67300",
       "#8B0707", "#329262", "#5574A6", "#FF6347", "#4B0082" >>

\* A route_id value: None, or a value with its str() text and its truth value.
RouteId(text, truthy) == [isNone |-> FALSE, text |-> text, truthy |-> truthy]
NoRouteId == [isNone |-> TRUE, text |-> "None", truthy |-> FALSE]

\* 1, 7, 21, 'r1', 0 and ''
RouteIds == { NoRouteId, RouteId("1", TRUE), RouteId("7", TRUE), RouteId("21", TRUE),
              RouteId("r1", TRUE), RouteId("0", FALSE), RouteId("", FALSE) }

\* int(hashlib.md5(text.encode()).hexdigest(), 16) % 20, as hashlib computes it
\* for the texts of RouteIds
Md5Mod20(text) ==
    CASE text = "1"  -> 11
      [] text = "7"  -> 15
      [] text = "21" -> 1
      [] text = "r1" -> 2
      [] text = "0"  -> 10
      [] text = ""   -> 6

\* get_color_for_route(index, route_id)
get_color_for_route(idx, rid) ==
    IF ~rid.isNone /\ rid.truthy
    THEN DISTINCT_COLORS[Md5Mod20(rid.text) + 1]
    ELSE DISTINCT_COLORS[(idx % Len(DISTINCT_COLORS)) + 1]

\* LINE_STYLES[index % len(LINE_STYLES)]['dashArray']
LINE_STYLES == << "None", "10, 10", "1, 10", "15, 10, 1, 10" >>
get_line_style_Mod3(idx) == LINE_STYLES[(idx % 3) + 1]
get_line_style(idx) == LINE_STYLES[(idx % Len(LINE_STYLES)) + 1]

\* dashArray of the straight-line fallback polyline
FallbackDash == "5, 5"

\* ---------------------------------------------------------------- JSON data
\* A point/waypoint dict {lat, lon, ...}; a key may be absent, the value may
\* not be a dict at all.  A coordinate value 0 is Python-falsy.
Pt(lat, lon) == [isDict |-> TRUE, keys |-> {"lat", "lon"}, lat |-> lat, lon |-> lon]
PtNoLat(lon) == [isDict |-> TRUE, keys |-> {"lon"}, lat |-> 0, lon |-> lon]
NotADict     == [isDict |-> FALSE, keys |-> {}, lat |-> 0, lon |-> 0]

\* A GeoJSON position is a sequence of numbers [lon, lat]; coord[1] needs two.
GoodLine    == << <<2, 1>>, <<4, 3>> >>
BadLine     == << <<2, 1>>, <<4>> >>
GoodSegs    == << << <<2, 1>> >>, << <<4, 3>>, <<6, 5>> >> >>
PartialSegs == << << <<2, 1>> >>, << <<4>> >> >>

\* A geometry value.  `coordinates` is the value read when the type is
\* LineString, `segments` the value read when it is MultiLineString; `sized`
\* is false when the 'coordinates' value is null (no len(), not iterable).
Geometry(type, coords, segs) ==
    [isObject |-> TRUE, keys |-> {"type", "coordinates"}, type |-> type,
     sized |-> TRUE, coordinates |-> coords, segments |-> segs]
G_LineString   == Geometry("LineString", GoodLine, <<>>)
G_LineBad      == Geometry("LineString", BadLine, <<>>)
G_LineNull     == [Geometry("LineString", <<>>, <<>>) EXCEPT !.sized = FALSE]
G_Multi        == Geometry("MultiLineString", <<>>, GoodSegs)
G_MultiPartial == Geometry("MultiLineString", <<>>, PartialSegs)
G_Point        == Geometry("Point", <<>>, <<>>)
G_NoType       == [Geometry("", GoodLine, <<>>) EXCEPT !.keys = {"coordinates"}]
G_Null         == [Geometry("", <<>>, <<>>) EXCEPT !.isObject = FALSE, !.keys = {}]

Feature(g)    == [keys |-> {"geometry"}, geometry |-> g]
F_NoGeometry  == [keys |-> {}, geometry |-> G_Null]

\* A decoded response body.  `coordinates` is a top-level 'coordinates' value.
Body(keys, type, feats) ==
    [keys |-> keys, type |-> type, features |-> feats, coordinates |-> <<>>]
FeatureCollection(feats) == Body({"type", "features"}, "FeatureCollection", feats)
NoBody == Body({}, "", <<>>)

ResponseBodies ==
    { Body({"message"}, "", <<>>),
      FeatureCollection(<<>>),
      FeatureCollection(<< F_NoGeometry >>),
      Body({"features"}, "", << Feature(G_LineString) >>),
      [Body({"type", "features", "coordinates"}, "LineString", << Feature(G_Point) >>)
          EXCEPT !.coordinates = GoodLine] }
    \cup { FeatureCollection(<< Feature(g) >>) :
             g \in { G_LineString, G_LineBad, G_LineNull, G_Multi, G_MultiPartial,
                     G_Point, G_NoType, G_Null } }

\* dict.get(key, default) / `key in dict` on the records above
Has(d, k) == k \in d.keys
TypeOf(g) == IF Has(g, "type") THEN g.type ELSE "None"

\* The value get_route_geometry returns: None or the decoded body.
None       == [isNone |-> TRUE, data |-> NoBody]
Some(body) == [isNone |-> FALSE, data |-> body]

\* One request's outcome as the requests library reports it.
NetOutcomes ==
    { [kind |-> k, body |-> NoBody] : k \in {"timeout", "http_error", "other"} }
    \cup { [kind |-> "ok", body |-> b] : b \in ResponseBodies }

\* os.environ.get(name, default)
EnvGet(e, default) == IF e.set THEN e.value ELSE default
EnvValues == { [set |-> FALSE, value |-> ""], [set |-> TRUE, value |-> ""],
               [set |-> TRUE, value |-> "k"] }

\* ------------------------------------------------------- get_route_geometry
\* `if not API_KEY`
ApiKeyMissing_SetOnly(e) == ~e.set
ApiKeyMissing(e) == EnvGet(e, "") = ""

\* vehicle_to_mode.get(vehicle_type.lower(), "drive")
TravelMode_CaseSensitive(vehicle_type) ==
    IF vehicle_type = W_truck THEN "truck"
    ELSE IF vehicle_type = W_motorcycle THEN "motorcycle"
    ELSE "drive"
TravelMode(vehicle_type) ==
    LET v == Lower(vehicle_type)
    IN  IF v \in {W_car, W_bus, W_van} THEN "drive"
        ELSE IF v = W_truck THEN "truck"
        ELSE IF v = W_motorcycle THEN "motorcycle"
        ELSE "drive"

\* start/end point checks: None is returned unless both are dicts with lat, lon
EndpointsValid(start_point, end_point) ==
    /\ start_point.isDict /\ end_point.isDict
    /\ Has(start_point, "lat") /\ Has(start_point, "lon")
    /\ Has(end_point, "lat") /\ Has(end_point, "lon")

\* the waypoint filter
IsValidWaypoint_KeysOnly(wp) == wp.isDict /\ Has(wp, "lat") /\ Has(wp, "lon")
IsValidWaypoint(wp) ==
    /\ wp.isDict /\ Has(wp, "lat") /\ Has(wp, "lon")
    /\ wp.lat # 0 /\ wp.lon # 0
ValidWaypoints(wps) == SelectSeq(wps, IsValidWaypoint)

\* "|".join(f"{lat},{lon}"): the entries, in order
WaypointStr_Unfiltered(start_point, wps, end_point) ==
    LET all_points == <<start_point>> \o wps \o <<end_point>>
    IN  [k \in 1..Len(all_points) |-> <<all_points[k].lat, all_points[k].lon>>]
WaypointStr(start_point, wps, end_point) ==
    LET all_points == <<start_point>> \o ValidWaypoints(wps) \o <<end_point>>
    IN  [k \in 1..Len(all_points) |-> <<all_points[k].lat, all_points[k].lon>>]

RequestParams(start_point, end_point, wps, vehicle_type, e) ==
    [waypoints |-> WaypointStr(start_point, wps, end_point),
     mode      |-> TravelMode(vehicle_type),
     details   |-> "instruction_details,route_details",
     apiKey    |-> EnvGet(e, "")]

\* The logging.info f-string of the success branch raises when the geometry
\* is not a dict, or is a LineString whose 'coordinates' has no len().
SuccessLogRaises(g) ==
    \/ ~g.isObject
    \/ TypeOf(g) = "LineString" /\ Has(g, "coordinates") /\ ~g.sized

\* What one completed request contributes: the returned value
\* (`return data`, or None after `break`).
HandleResponse(data) ==
    IF Has(data, "features") /\ Len(data.features) > 0
    THEN LET feature == data.features[1]
         IN  IF Has(feature, "geometry")
             THEN IF SuccessLogRaises(feature.geometry) THEN None ELSE Some(data)
             ELSE None
    ELSE None

\* except Timeout: the sleeps made and the new retry_delay
OnTimeout_AlwaysSleep(att, delay) == [sleeps |-> <<delay>>, delay |-> delay * 2]
OnTimeout(att, delay) ==
    IF att < max_retries - 1
    THEN [sleeps |-> <<delay>>, delay |-> delay * 2]
    ELSE [sleeps |-> <<>>, delay |-> delay]

\* Which outcomes leave the for loop running (no break, no return)
LoopContinues_HttpErrorToo(kind) == kind \in {"timeout", "http_error"}
LoopContinues_AnyError(kind) == kind \in {"timeout", "http_error", "other"}
LoopContinues(kind) == kind = "timeout"

\* ------------------------------------------------------------ renderer inputs
\* route_data: the embedded route dict handed to a renderer
RouteData(keys, feats, path, vt) ==
    [keys |-> keys, features |-> feats, path |-> path, vehicle_type |-> vt,
     waypoints |-> <<>>, geometry |-> G_Null, polyline |-> ""]
NoRouteData == RouteData({}, <<>>, <<>>, NoneStr)

\* vehicle: the vehicle dict of a routes_info entry
Vehicle(keys, model) == [keys |-> keys, model |-> model]
RouteInfo(vehicle, rd, passengers) ==
    [vehicle |-> vehicle, route_data |-> rd, passengers |-> passengers]

VehicleTypeInputs ==
    { StrVal(W_car), StrVal(W_bus), StrVal(W_van), StrVal(W_truck),
      StrVal(W_motorcycle), StrVal(<<"T","R","U","C","K">>),
      StrVal(<<"T","r","u","c","k">>),
      StrVal(<<"M","o","t","o","r","C","y","c","l","e">>),
      StrVal(<<"s","u","v">>), StrVal(<<>>), NoneStr }

WaypointLists ==
    { <<>>, << Pt(1, 2) >>, << Pt(0, 2), Pt(3, 4) >>, << Pt(3, 4), PtNoLat(2) >> }

FetchWaypointLists == WaypointLists \cup { << NotADict, Pt(3, 4), Pt(1, 2) >> }

SingleRouteData ==
    { NoRouteData,
      RouteData({"vehicle_type"}, <<>>, <<>>, StrVal(<<"T","R","U","C","K">>)),
      RouteData({"vehicle_type"}, <<>>, <<>>, NoneStr),
      RouteData({"features"}, << Feature(G_LineString) >>, <<>>, NoneStr),
      RouteData({"features"}, << Feature(G_MultiPartial) >>, <<>>, NoneStr),
      RouteData({"features"}, << Feature(G_Point), Feature(G_Multi) >>, <<>>, NoneStr),
      RouteData({"features"}, << Feature(G_Null) >>, <<>>, NoneStr) }

\* ------------------------------------------------------------------- state
VARIABLES
    entry,        \* the public function running: "fetch", "single", "map", "multi"
    pc,           \* position in that function
    env,          \* the GEOAPIFY_API_KEY environment entry
    start_coord, end_coord,
    route_data, waypoints,      \* arguments of display_route_on_map
    routes_info,                \* argument of display_multiple_routes_on_map
    i,            \* 1-based position in routes_info (the code's i is i - 1)
    line_added,
    polylines,    \* PolyLine objects added, in order
    markers,      \* Marker / CircleMarker locations added, in order
    legend,       \* legend entries appended to legend_html, in order
    groups,       \* FeatureGroups added to the map, in order
    notices,      \* st.info / st.success / st.warning / st.error shown
    displayed,    \* number of folium_static calls
    calls,        \* per route: number of get_route_geometry calls
    f_pc,         \* get_route_geometry: "idle", "called", "loop", "returned", "raised"
    f_args,       \* its arguments
    attempt, retry_delay,
    trace,        \* its requests and sleeps, in order
    outcomes,     \* the outcome of each request, in order
    f_result,     \* its return value
    vehicle_model,              \* argument of get_vehicle_type
    index, route_id,            \* arguments of get_color_for_route / get_line_style
    ret           \* value returned by a helper called directly

utilVars   == <<vehicle_model, index, route_id, ret>>
fetchVars  == <<f_pc, f_args, attempt, retry_delay, trace, outcomes, f_result>>
inputVars  == <<entry, env, start_coord, end_coord, route_data, waypoints, routes_info>>
renderVars == <<pc, i, line_added, polylines, markers, legend, groups, displayed, calls>>
vars == <<inputVars, utilVars, renderVars, notices, fetchVars>>

FetchArgs(sp, ep, wps, vt) ==
    [start_point |-> sp, end_point |-> ep, waypoints |-> wps, vehicle_type |-> vt]
NoArgs == FetchArgs(NotADict, NotADict, <<>>, NoneStr)

Notice(level, msg, route) == [level |-> level, msg |-> msg, route |-> route]

RequestEvent(params) == [op |-> "request", secs |-> request_timeout, params |-> params]
SleepEvent(secs)     == [op |-> "sleep", secs |-> secs,
                         params |-> [waypoints |-> <<>>, mode |-> "", details |-> "",
                                     apiKey |-> ""]]

Requests == SelectSeq(trace, LAMBDA ev : ev.op = "request")
Sleeps   == SelectSeq(trace, LAMBDA ev : ev.op = "sleep")

InitCommon ==
    /\ env \in EnvValues
    /\ pc = "start"
    /\ i = 0
    /\ line_added = FALSE
    /\ polylines = <<>> /\ markers = <<>> /\ legend = <<>> /\ groups = <<>>
    /\ notices = {}
    /\ displayed = 0
    /\ f_pc = "idle"
    /\ attempt = 0 /\ retry_delay = initial_retry_delay
    /\ trace = <<>> /\ outcomes = <<>>
    /\ f_result = None

\* a direct call get_route_geometry(start_point, end_point, waypoints, vehicle_type)
InitFetch ==
    /\ entry = "fetch"
    /\ start_coord \in {Pt(5, 6), PtNoLat(6), NotADict}
    /\ end_coord = Pt(7, 8)
    /\ waypoints \in FetchWaypointLists
    /\ route_data \in {RouteData({"vehicle_type"}, <<>>, <<>>, vt) : vt \in VehicleTypeInputs}
    /\ routes_info = <<>>
    /\ calls = <<0>>

\* a call display_route_on_map(route_data, start_coord, end_coord, waypoints)
InitSingle ==
    /\ entry = "single"
    /\ start_coord = Pt(5, 6)
    /\ end_coord = Pt(7, 8)
    /\ waypoints \in WaypointLists
    /\ route_data \in SingleRouteData
    /\ routes_info = <<>>
    /\ calls = <<0>>

\* ------------------------------------------------- get_route_geometry steps
\* Function entry up to the retry loop: key check, travel mode, point checks.
FetchEnter ==
    /\ f_pc = "called"
    /\ attempt' = 0
    /\ retry_delay' = initial_retry_delay
    /\ trace' = <<>>
    /\ outcomes' = <<>>
    /\ IF ApiKeyMissing(env)
       THEN /\ notices' = notices \cup {Notice("warning", "no_api_key", i)}
            /\ f_result' = None
            /\ f_pc' = "returned"
       ELSE IF ~f_args.vehicle_type.isStr
       THEN \* vehicle_type.lower() raises outside the function's try
            /\ f_pc' = "raised"
            /\ UNCHANGED <<notices, f_result>>
       ELSE IF ~EndpointsValid(f_args.start_point, f_args.end_point)
       THEN /\ f_result' = None
            /\ f_pc' = "returned"
            /\ UNCHANGED notices
       ELSE /\ notices' = notices \cup {Notice("info", "requesting", i)}
            /\ f_pc' = "loop"
            /\ UNCHANGED f_result
    /\ UNCHANGED <<inputVars, utilVars, renderVars, f_args>>

\* One iteration of `for attempt in range(max_retries)`: the request, the
\* handling of its outcome and, when the loop ends, `return None`.
FetchAttempt ==
    /\ f_pc = "loop"
    /\ attempt < max_retries
    /\ \E o \in NetOutcomes :
         LET req == RequestEvent(RequestParams(f_args.start_point, f_args.end_point,
                                               f_args.waypoints,
                                               f_args.vehicle_type.chars, env))
             t   == OnTimeout(attempt, retry_delay)
         IN  /\ outcomes' = Append(outcomes, o)
             /\ IF o.kind = "ok"
                THEN /\ trace' = Append(trace, req)
                     /\ f_result' = HandleResponse(o.body)
                     /\ f_pc' = "returned"
                     /\ UNCHANGED <<attempt, retry_delay>>
                ELSE IF LoopContinues(o.kind)
                THEN /\ trace' = Append(trace, req)
                                   \o [k \in 1..Len(t.sleeps) |-> SleepEvent(t.sleeps[k])]
                     /\ retry_delay' = t.delay
                     /\ attempt' = attempt + 1
                     /\ f_result' = None
                     /\ f_pc' = IF attempt + 1 < max_retries THEN "loop" ELSE "returned"
                ELSE /\ trace' = Append(trace, req)
                     /\ f_result' = None
                     /\ f_pc' = "returned"
                     /\ UNCHANGED <<attempt, retry_delay>>
    /\ UNCHANGED <<inputVars, utilVars, renderVars, notices, f_args>>

\* The direct caller: call, then take the returned value.
D_Call ==
    /\ entry = "fetch" /\ pc = "start"
    /\ f_args' = FetchArgs(start_coord, end_coord, waypoints, route_data.vehicle_type)
    /\ f_pc' = "called"
    /\ pc' = "api"
    /\ calls' = <<1>>
    /\ UNCHANGED <<inputVars, utilVars, i, line_added, polylines, markers, legend, groups,
                   displayed, notices, attempt, retry_delay, trace, outcomes, f_result>>

D_Return ==
    /\ entry = "fetch" /\ pc = "api"
    /\ f_pc \in {"returned", "raised"}
    /\ pc' = IF f_pc = "raised" THEN "aborted" ELSE "done"
    /\ UNCHANGED <<inputVars, utilVars, i, line_added, polylines, markers, legend, groups,
                   displayed, calls, notices, fetchVars>>

\* ------------------------------------------------------------------ drawing
PolyLine(route, source, points, dash) ==
    [route |-> route, source |-> source, points |-> points, dash |-> dash]

Marker(route, wp) == [route |-> route, location |-> <<wp.lat, wp.lon>>]

\* [(coord[1], coord[0]) for coord in coords]
SwapLonLat(coords) == [k \in 1..Len(coords) |-> <<coords[k][2], coords[k][1]>>]
CoordsOK(coords)   == \A k \in 1..Len(coords) : Len(coords[k]) >= 2

\* index of the first segment whose conversion raises, Len + 1 when none does
FirstBadSegment(segs) ==
    IF \E k \in 1..Len(segs) : ~CoordsOK(segs[k])
    THEN CHOOSE k \in 1..Len(segs) :
            /\ ~CoordsOK(segs[k])
            /\ \A j \in 1..(k - 1) : CoordsOK(segs[j])
    ELSE Len(segs) + 1

Drawn(lines, added, raised) == [lines |-> lines, added |-> added, raised |-> raised]

\* The `if geom['type'] == 'LineString': ... elif ... == 'MultiLineString': ...`
\* block of the renderers: the polylines added before any exception, whether
\* line_added was set, and whether an exception was raised.  popup_ok is false
\* when building the LineString popup raises (a vehicle key is missing).
DrawGeometry(geom, route, source, dash, popup_ok) ==
    IF ~geom.isObject \/ ~Has(geom, "type")
    THEN Drawn(<<>>, FALSE, TRUE)
    ELSE IF geom.type = "LineString"
    THEN IF Has(geom, "coordinates") /\ geom.sized /\ CoordsOK(geom.coordinates) /\ popup_ok
         THEN Drawn(<< PolyLine(route, source, SwapLonLat(geom.coordinates), dash) >>,
                    TRUE, FALSE)
         ELSE Drawn(<<>>, FALSE, TRUE)
    ELSE IF geom.type = "MultiLineString"
    THEN IF Has(geom, "coordinates") /\ geom.sized
         THEN LET bad == FirstBadSegment(geom.segments)
                  ok  == bad > Len(geom.segments)
              IN  Drawn([k \in 1..(bad - 1) |->
                            PolyLine(route, source, SwapLonLat(geom.segments[k]), dash)],
                        ok, ~ok)
         ELSE Drawn(<<>>, FALSE, TRUE)
    ELSE Drawn(<<>>, FALSE, FALSE)

\* `for feature in route_data['features']` of the embedded-data method.  The
\* test `feature['geometry'].get('type') in [...]` is outside the try: a
\* geometry that is not a dict ends the loop with an uncaught exception.
RECURSIVE DrawFeatures(_, _, _, _, _, _)
DrawFeatures(feats, k, acc, route, dash, popup_ok) ==
    IF k > Len(feats) \/ acc.aborted THEN acc
    ELSE LET f == feats[k]
         IN  IF ~Has(f, "geometry")
             THEN DrawFeatures(feats, k + 1, acc, route, dash, popup_ok)
             ELSE IF ~f.geometry.isObject
             THEN [acc EXCEPT !.aborted = TRUE]
             ELSE IF TypeOf(f.geometry) \in {"LineString", "MultiLineString"}
             THEN LET r == DrawGeometry(f.geometry, route, "features", dash, popup_ok)
                  IN  DrawFeatures(feats, k + 1,
                                   [lines   |-> acc.lines \o r.lines,
                                    added   |-> acc.added \/ r.added,
                                    raised  |-> acc.raised \/ r.raised,
                                    aborted |-> FALSE],
                                   route, dash, popup_ok)
             ELSE DrawFeatures(feats, k + 1, acc, route, dash, popup_ok)

NothingDrawn == [lines |-> <<>>, added |-> FALSE, raised |-> FALSE, aborted |-> FALSE]

\* all_points of the straight-line fallback: start, every waypoint, end
FallbackPoints_ValidOnly(sc, wps, ec) ==
    <<  <<sc.lat, sc.lon>> >>
    \o [k \in 1..Len(ValidWaypoints(wps)) |->
           <<ValidWaypoints(wps)[k].lat, ValidWaypoints(wps)[k].lon>>]
    \o << <<ec.lat, ec.lon>> >>
FallbackPoints(sc, wps, ec) ==
    <<  <<sc.lat, sc.lon>> >>
    \o [k \in 1..Len(wps) |-> <<wps[k].lat, wps[k].lon>>]
    \o << <<ec.lat, ec.lon>> >>

\* wp['lat'], wp['lon'] raise KeyError when a key is absent
HasCoords(wp) == Has(wp, "lat") /\ Has(wp, "lon")
FirstBadWaypoint(wps) ==
    IF \E k \in 1..Len(wps) : ~HasCoords(wps[k])
    THEN CHOOSE k \in 1..Len(wps) :
            /\ ~HasCoords(wps[k])
            /\ \A j \in 1..(k - 1) : HasCoords(wps[j])
    ELSE Len(wps) + 1

\* --------------------------------------------------- display_route_on_map
\* Map, start/end markers and the waypoint markers; line_added = False.
S_Markers ==
    /\ entry = "single" /\ pc = "start"
    /\ LET bad == FirstBadWaypoint(waypoints)
       IN  /\ markers' = << Marker(1, start_coord), Marker(1, end_coord) >>
                          \o [k \in 1..(bad - 1) |-> Marker(1, waypoints[k])]
           /\ pc' = IF bad <= Len(waypoints) THEN "aborted" ELSE "fetch"
    /\ i' = 1
    /\ line_added' = FALSE
    /\ UNCHANGED <<inputVars, utilVars, polylines, legend, groups, displayed, calls, notices,
                   fetchVars>>

\* vehicle_type = route_data.get('vehicle_type', 'car'); get_route_geometry(...)
S_CallFetch ==
    /\ entry = "single" /\ pc = "fetch"
    /\ f_args' = FetchArgs(start_coord, end_coord, waypoints,
                           IF Has(route_data, "vehicle_type")
                           THEN route_data.vehicle_type ELSE StrVal(W_car))
    /\ f_pc' = "called"
    /\ calls' = [calls EXCEPT ![1] = @ + 1]
    /\ pc' = "api"
    /\ UNCHANGED <<inputVars, utilVars, i, line_added, polylines, markers, legend, groups,
                   displayed, notices, attempt, retry_delay, trace, outcomes, f_result>>

\* What the first try block draws from api_route_data.
S_ApiDrawn(result, raised) ==
    IF raised THEN Drawn(<<>>, FALSE, TRUE)
    ELSE IF ~result.isNone /\ Has(result.data, "features")
            /\ Len(result.data.features) > 0
    THEN LET feature == result.data.features[1]
         IN  IF Has(feature, "geometry")
             THEN DrawGeometry(feature.geometry, 1, "api", "None", TRUE)
             ELSE Drawn(<<>>, FALSE, FALSE)
    ELSE Drawn(<<>>, FALSE, FALSE)

S_DrawApi ==
    /\ entry = "single" /\ pc = "api"
    /\ f_pc \in {"returned", "raised"}
    /\ LET r == S_ApiDrawn(f_result, f_pc = "raised")
       IN  /\ polylines' = polylines \o r.lines
           /\ line_added' = r.added
           /\ notices' = notices
                \cup (IF r.added THEN {Notice("success", "real_route", 1)} ELSE {})
                \cup (IF r.raised THEN {Notice("error", "api_route_error", 1)} ELSE {})
    /\ pc' = "embedded"
    /\ UNCHANGED <<inputVars, utilVars, i, markers, legend, groups, displayed, calls, fetchVars>>

\* `if not line_added and 'features' in route_data:`
EmbeddedWanted_AlsoAfterFetch(added, rd) == Has(rd, "features")
EmbeddedWanted(added, rd) == ~added /\ Has(rd, "features")

\* `if not line_added and 'features' in route_data: for feature in ...`
S_DrawEmbedded ==
    /\ entry = "single" /\ pc = "embedded"
    /\ LET r == IF EmbeddedWanted(line_added, route_data)
                THEN DrawFeatures(route_data.features, 1, NothingDrawn, 1, "None", TRUE)
                ELSE NothingDrawn
       IN  /\ polylines' = polylines \o r.lines
           /\ line_added' = (line_added \/ r.added)
           /\ notices' = notices
                \cup (IF r.raised THEN {Notice("error", "geometry_error", 1)} ELSE {})
           /\ pc' = IF r.aborted THEN "aborted" ELSE "fallback"
    /\ UNCHANGED <<inputVars, utilVars, i, markers, legend, groups, displayed, calls, fetchVars>>

\* `if not line_added:` the dashed straight line, the warnings, line_added = True
S_Fallback ==
    /\ entry = "single" /\ pc = "fallback"
    /\ IF line_added
       THEN UNCHANGED <<polylines, line_added, notices>>
       ELSE IF FirstBadWaypoint(waypoints) <= Len(waypoints)
       THEN /\ notices' = notices \cup {Notice("error", "no_path_rendered", 1)}
            /\ UNCHANGED <<polylines, line_added>>
       ELSE /\ polylines' = Append(polylines,
                                   PolyLine(1, "fallback",
                                            FallbackPoints(start_coord, waypoints, end_coord),
                                            FallbackDash))
            /\ notices' = notices \cup {Notice("warning", "straight_line", 1)}
            /\ line_added' = TRUE
    /\ pc' = "final"
    /\ UNCHANGED <<inputVars, utilVars, i, markers, legend, groups, displayed, calls, fetchVars>>

\* Fullscreen, LocateControl, MeasureControl, folium_static(m)
S_Display ==
    /\ entry = "single" /\ pc = "final"
    /\ displayed' = displayed + 1
    /\ pc' = "done"
    /\ UNCHANGED <<inputVars, utilVars, i, line_added, polylines, markers, legend, groups, calls,
                   notices, fetchVars>>

\* ----------------------------------------- display_multiple_routes_on_map
V_Van     == Vehicle({"model", "license_plate"}, <<"V","a","n">>)
V_Truck   == Vehicle({"model", "license_plate"}, <<"T","R","U","C","K">>)
V_Bus     == Vehicle({"model", "license_plate"}, <<"B","u","s">>)
V_Car     == Vehicle({"model", "license_plate"}, <<"U","n","o">>)
V_NoModel == Vehicle({"license_plate"}, <<>>)
V_NoPlate == Vehicle({"model"}, <<"U","n","o">>)

RouteInfoSet ==
    { RouteInfo(V_Van, NoRouteData, << Pt(1, 2) >>),
      RouteInfo(V_Truck, NoRouteData, << Pt(0, 2), Pt(3, 4) >>),
      RouteInfo(V_Bus, RouteData({"features"}, << Feature(G_LineString) >>, <<>>, NoneStr),
                << Pt(1, 2) >>),
      RouteInfo(V_Car, RouteData({"path"}, <<>>, << Pt(1, 2), Pt(3, 4) >>, NoneStr), <<>>),
      RouteInfo(V_Car, NoRouteData, << PtNoLat(2) >>),
      RouteInfo(V_Van, RouteData({"features"}, << Feature(G_MultiPartial) >>, <<>>, NoneStr),
                << Pt(1, 2) >>),
      RouteInfo(V_Bus, RouteData({"features"}, << Feature(G_Null) >>, <<>>, NoneStr), <<>>),
      RouteInfo(V_NoModel, NoRouteData, <<>>),
      RouteInfo(V_NoPlate,
                RouteData({"features", "path"}, << Feature(G_LineString) >>,
                          << Pt(1, 2), Pt(3, 4) >>, NoneStr),
                <<>>) }

RECURSIVE SeqsUpTo(_, _)
SeqsUpTo(S, n) ==
    IF n = 0 THEN { <<>> }
    ELSE LET shorter == SeqsUpTo(S, n - 1)
         IN  shorter \cup { Append(q, x) : q \in shorter, x \in S }

\* a call display_multiple_routes_on_map(routes_info, start_coord, end_coord)
InitMulti ==
    /\ entry = "multi"
    /\ start_coord = Pt(5, 6)
    /\ end_coord = Pt(7, 8)
    /\ routes_info \in SeqsUpTo(RouteInfoSet, MaxRoutes)
    /\ waypoints = <<>>
    /\ route_data = NoRouteData
    /\ calls = [k \in 1..Len(routes_info) |-> 0]

Cur == routes_info[i]

\* f"Rota {i+1}: {vehicle['model']}" and f"route-toggle-{i}"
GroupName(idx, model) == [rota |-> idx + 1, model |-> model]
CheckboxId(idx) == idx

\* showAllRoutes / hideAllRoutes of the legend script: the group name built
\* from a checkbox id, checkbox.id.replace('route-toggle-', 'Rota ') + ': '
ToggleAllGroupName(checkbox_id) == [rota |-> checkbox_id, model |-> <<>>]

\* Figure, map, controls, start and end markers, empty legend
M_Begin ==
    /\ entry = "multi" /\ pc = "start"
    /\ markers' = << Marker(0, start_coord), Marker(0, end_coord) >>
    /\ i' = 1
    /\ pc' = IF routes_info = <<>> THEN "finish" ELSE "legend"
    /\ UNCHANGED <<inputVars, utilVars, line_added, polylines, legend, groups, displayed, calls,
                   notices, fetchVars>>

\* Loop head of route i: colour, group name, line style, legend entry.
\* vehicle['model'] raises KeyError, uncaught, when the key is absent.
M_Legend ==
    /\ entry = "multi" /\ pc = "legend"
    /\ IF Has(Cur.vehicle, "model")
       THEN /\ legend' = Append(legend,
                                [checkbox_id |-> CheckboxId(i - 1),
                                 group_name  |-> GroupName(i - 1, Cur.vehicle.model)])
            /\ pc' = "markers"
       ELSE /\ pc' = "aborted"
            /\ UNCHANGED legend
    /\ UNCHANGED <<inputVars, utilVars, i, line_added, polylines, markers, groups, displayed, calls,
                   notices, fetchVars>>

\* MarkerCluster and one CircleMarker per passenger; line_added = False.
\* The popup reads vehicle['license_plate'], the marker wp['lat'], wp['lon'];
\* neither is inside a try.
M_Markers ==
    /\ entry = "multi" /\ pc = "markers"
    /\ LET bad == IF Has(Cur.vehicle, "license_plate")
                  THEN FirstBadWaypoint(Cur.passengers) ELSE 1
       IN  /\ markers' = markers \o [k \in 1..(bad - 1) |-> Marker(i, Cur.passengers[k])]
           /\ pc' = IF bad <= Len(Cur.passengers) THEN "aborted" ELSE "embedded"
    /\ line_added' = FALSE
    /\ UNCHANGED <<inputVars, utilVars, i, polylines, legend, groups, displayed, calls, notices,
                   fetchVars>>

\* Method 2: the 'path' list, used as (lat, lon) pairs
PathDrawn(rd, added, route, dash, popup_ok) ==
    IF ~added /\ Has(rd, "path") /\ Len(rd.path) > 1
    THEN IF FirstBadWaypoint(rd.path) > Len(rd.path) /\ popup_ok
         THEN Drawn(<< PolyLine(route, "path",
                                [k \in 1..Len(rd.path) |-> <<rd.path[k].lat, rd.path[k].lon>>],
                                dash) >>, TRUE, FALSE)
         ELSE Drawn(<<>>, FALSE, TRUE)
    ELSE Drawn(<<>>, FALSE, FALSE)

\* Methods 1 and 2: embedded 'features' geometry, then the embedded 'path'.
M_Embedded ==
    /\ entry = "multi" /\ pc = "embedded"
    /\ LET dash  == get_line_style(i - 1)
           plate == Has(Cur.vehicle, "license_plate")
           r1 == IF Has(Cur.route_data, "features")
                 THEN DrawFeatures(Cur.route_data.features, 1, NothingDrawn, i, dash, plate)
                 ELSE NothingDrawn
           r2 == IF r1.aborted THEN Drawn(<<>>, FALSE, FALSE)
                 ELSE PathDrawn(Cur.route_data, r1.added, i, dash, plate)
       IN  /\ polylines' = polylines \o r1.lines \o r2.lines
           /\ line_added' = (r1.added \/ r2.added)
           /\ notices' = notices
                \cup (IF r1.raised THEN {Notice("warning", "geometry_error", i)} ELSE {})
                \cup (IF r2.raised THEN {Notice("warning", "path_error", i)} ELSE {})
           /\ pc' = IF r1.aborted THEN "aborted" ELSE "fetch"
    /\ UNCHANGED <<inputVars, utilVars, i, markers, legend, groups, displayed, calls, fetchVars>>

\* Method 3: `if not line_added:`
FetchWanted_Always(added) == TRUE
FetchWanted(added) == ~added

\* Method 3, first half: `if not line_added:` classify the vehicle and call
\* get_route_geometry(start_coord, end_coord, passengers, vehicle_type).
M_CallFetch ==
    /\ entry = "multi" /\ pc = "fetch"
    /\ IF ~FetchWanted(line_added)
       THEN /\ pc' = "fallback"
            /\ UNCHANGED <<calls, f_pc, f_args>>
       ELSE /\ f_args' = FetchArgs(start_coord, end_coord, Cur.passengers,
                                   StrVal(IF Has(Cur.vehicle, "model")
                                          THEN get_vehicle_type(StrVal(Cur.vehicle.model))
                                          ELSE W_car))
            /\ f_pc' = "called"
            /\ calls' = [calls EXCEPT ![i] = @ + 1]
            /\ pc' = "api"
    /\ UNCHANGED <<inputVars, utilVars, i, line_added, polylines, markers, legend, groups,
                   displayed, notices, attempt, retry_delay, trace, outcomes, f_result>>

\* The returned value read as a bare geometry: route_geom['type'],
\* route_geom['coordinates'].
AsGeometry(data) ==
    [isObject |-> TRUE, keys |-> data.keys, type |-> data.type, sized |-> TRUE,
     coordinates |-> data.coordinates, segments |-> <<>>]

\* What Method 3 draws from route_geom.
M_ApiDrawn(result, raised, route, dash, popup_ok) ==
    IF raised THEN Drawn(<<>>, FALSE, TRUE)
    ELSE IF ~result.isNone
    THEN DrawGeometry(AsGeometry(result.data), route, "api", dash, popup_ok)
    ELSE Drawn(<<>>, FALSE, FALSE)

\* Method 3, second half: draw from the returned value.
M_DrawApi ==
    /\ entry = "multi" /\ pc = "api"
    /\ f_pc \in {"returned", "raised"}
    /\ LET r == M_ApiDrawn(f_result, f_pc = "raised", i, get_line_style(i - 1),
                           Has(Cur.vehicle, "license_plate"))
       IN  /\ polylines' = polylines \o r.lines
           /\ line_added' = r.added
           /\ notices' = notices
                \cup (IF r.raised THEN {Notice("warning", "api_route_error", i)} ELSE {})
    /\ pc' = "fallback"
    /\ UNCHANGED <<inputVars, utilVars, i, markers, legend, groups, displayed, calls, fetchVars>>

\* Method 4: `if not line_added:` the dashed straight line and its warning.
\* line_added is not assigned here.
M_Fallback ==
    /\ entry = "multi" /\ pc = "fallback"
    /\ IF line_added
       THEN UNCHANGED <<polylines, notices>>
       ELSE IF FirstBadWaypoint(Cur.passengers) <= Len(Cur.passengers)
       THEN /\ notices' = notices \cup {Notice("error", "no_path_rendered", i)}
            /\ UNCHANGED polylines
       ELSE /\ polylines' = Append(polylines,
                                   PolyLine(i, "fallback",
                                            FallbackPoints(start_coord, Cur.passengers,
                                                           end_coord),
                                            FallbackDash))
            /\ notices' = notices \cup {Notice("warning", "straight_line", i)}
    /\ pc' = "add_group"
    /\ UNCHANGED <<inputVars, utilVars, i, line_added, markers, legend, groups, displayed, calls,
                   fetchVars>>

\* route_group.add_to(m); feature_groups[group_name] = route_group; next route.
\* The locals of the finished get_route_geometry call are dead from here on.
M_AddGroup_Twice ==
    /\ entry = "multi" /\ pc = "add_group"
    /\ groups' = groups \o << GroupName(i - 1, Cur.vehicle.model),
                            GroupName(i - 1, Cur.vehicle.model) >>
    /\ i' = i + 1
    /\ pc' = IF i + 1 > Len(routes_info) THEN "finish" ELSE "legend"
    /\ f_pc' = "idle" /\ f_args' = NoArgs
    /\ attempt' = 0 /\ retry_delay' = initial_retry_delay
    /\ trace' = <<>> /\ outcomes' = <<>> /\ f_result' = None
    /\ UNCHANGED <<inputVars, utilVars, line_added, polylines, markers, legend, displayed, calls,
                   notices>>
M_AddGroup ==
    /\ entry = "multi" /\ pc = "add_group"
    /\ groups' = Append(groups, GroupName(i - 1, Cur.vehicle.model))
    /\ i' = i + 1
    /\ pc' = IF i + 1 > Len(routes_info) THEN "finish" ELSE "legend"
    /\ f_pc' = "idle" /\ f_args' = NoArgs
    /\ attempt' = 0 /\ retry_delay' = initial_retry_delay
    /\ trace' = <<>> /\ outcomes' = <<>> /\ f_result' = None
    /\ UNCHANGED <<inputVars, utilVars, line_added, polylines, markers, legend, displayed, calls,
                   notices>>

\* Legend script, LayerControl, legend element, folium_static(fig)
M_Finish ==
    /\ entry = "multi" /\ pc = "finish"
    /\ displayed' = displayed + 1
    /\ pc' = "done"
    /\ UNCHANGED <<inputVars, utilVars, i, line_added, polylines, markers, legend, groups, calls,
                   notices, fetchVars>>

\* ------------------------------------------------------- display_route_map
\* route_data['waypoints'] entries: {'location': [lat, lon], 'name': ...}
MapWp(lat, lon) == [keys |-> {"location"}, location |-> <<lat, lon>>]
MapWpNoLocation == [keys |-> {}, location |-> <<0, 0>>]

MapRouteData(keys, wps, g) ==
    [RouteData(keys, <<>>, <<>>, NoneStr) EXCEPT !.waypoints = wps, !.geometry = g]

MapRouteDataSet ==
    { MapRouteData({"waypoints"}, << MapWp(5, 6), MapWp(7, 8) >>, G_Null),
      MapRouteData({"waypoints"}, << MapWp(5, 6), MapWp(1, 2), MapWp(7, 8) >>, G_Null),
      MapRouteData({"waypoints"},
                   << MapWp(5, 6), MapWpNoLocation, MapWp(0, 2), MapWp(7, 8) >>, G_Null),
      MapRouteData({"waypoints"}, << MapWp(5, 6) >>, G_Null),
      MapRouteData({"waypoints", "geometry"}, << MapWp(5, 6), MapWp(7, 8) >>, G_LineString),
      MapRouteData({"waypoints", "geometry"}, << MapWp(5, 6), MapWp(7, 8) >>, G_MultiPartial),
      MapRouteData({"waypoints", "geometry"}, << MapWp(5, 6), MapWp(7, 8) >>, G_Null),
      RouteData({"features"}, << Feature(G_LineString) >>, <<>>, NoneStr) }

\* a call display_route_map(route_data)
InitMap ==
    /\ entry = "map"
    /\ route_data \in MapRouteDataSet
    /\ start_coord = NotADict /\ end_coord = NotADict
    /\ waypoints = <<>>
    /\ routes_info = <<>>
    /\ calls = <<0>>

\* waypoints[k].get('location', [0, 0]) as a {lat, lon} dict
LocationOf(wp) ==
    IF Has(wp, "location") THEN Pt(wp.location[1], wp.location[2]) ELSE Pt(0, 0)

\* the intermediate waypoints: those of waypoints[1:-1] that have 'location'
Intermediate(wps) ==
    LET inner == SubSeq(wps, 2, Len(wps) - 1)
        kept  == SelectSeq(inner, LAMBDA wp : Has(wp, "location"))
    IN  [k \in 1..Len(kept) |-> LocationOf(kept[k])]

\* Start of display_route_map: without 'waypoints' it calls
\* display_route_on_map(route_data, {0, 0}, {0, 0}, []) (its own handler only
\* reports what that call raises); with fewer than two waypoints it warns and
\* returns; otherwise it derives the points, builds the map and the markers.
P_Begin ==
    /\ entry = "map" /\ pc = "start"
    /\ IF ~Has(route_data, "waypoints")
       THEN /\ entry' = "single"
            /\ start_coord' = Pt(0, 0) /\ end_coord' = Pt(0, 0)
            /\ waypoints' = <<>>
            /\ pc' = "start"
            /\ UNCHANGED <<markers, notices, i>>
       ELSE IF Len(route_data.waypoints) < 2
       THEN /\ notices' = notices \cup {Notice("warning", "insufficient_data", 1)}
            /\ pc' = "done"
            /\ UNCHANGED <<entry, start_coord, end_coord, waypoints, markers, i>>
       ELSE LET wps == route_data.waypoints
                sc  == LocationOf(wps[1])
                ec  == LocationOf(wps[Len(wps)])
                mid == Intermediate(wps)
            IN  /\ start_coord' = sc /\ end_coord' = ec
                /\ waypoints' = mid
                /\ markers' = << Marker(1, sc), Marker(1, ec) >>
                                 \o [k \in 1..Len(mid) |-> Marker(1, mid[k])]
                /\ i' = 1
                /\ pc' = "geometry"
                /\ UNCHANGED <<entry, notices>>
    /\ line_added' = FALSE
    /\ UNCHANGED <<env, route_data, routes_info, utilVars, polylines, legend, groups,
                   displayed, calls, fetchVars>>

\* 1. `if 'geometry' in route_data:` draw the embedded geometry
P_DrawGeometry ==
    /\ entry = "map" /\ pc = "geometry"
    /\ LET r == IF Has(route_data, "geometry")
                THEN DrawGeometry(route_data.geometry, 1, "geometry", "None", TRUE)
                ELSE Drawn(<<>>, FALSE, FALSE)
       IN  /\ polylines' = polylines \o r.lines
           /\ line_added' = r.added
           /\ notices' = notices
                \cup (IF r.raised THEN {Notice("warning", "geometry_error", 1)} ELSE {})
    /\ pc' = "fetch"
    /\ UNCHANGED <<inputVars, utilVars, i, markers, legend, groups, displayed, calls, fetchVars>>

\* 2. `if not line_added:` get_route_geometry(start, end, intermediate, "car")
P_CallFetch ==
    /\ entry = "map" /\ pc = "fetch"
    /\ IF ~FetchWanted(line_added)
       THEN /\ pc' = "fallback"
            /\ UNCHANGED <<calls, f_pc, f_args>>
       ELSE /\ f_args' = FetchArgs(start_coord, end_coord, waypoints, StrVal(W_car))
            /\ f_pc' = "called"
            /\ calls' = [calls EXCEPT ![1] = @ + 1]
            /\ pc' = "api"
    /\ UNCHANGED <<inputVars, utilVars, i, line_added, polylines, markers, legend, groups,
                   displayed, notices, attempt, retry_delay, trace, outcomes, f_result>>

P_DrawApi ==
    /\ entry = "map" /\ pc = "api"
    /\ f_pc \in {"returned", "raised"}
    /\ LET r == M_ApiDrawn(f_result, f_pc = "raised", 1, "None", TRUE)
       IN  /\ polylines' = polylines \o r.lines
           /\ line_added' = r.added
           /\ notices' = notices
                \cup (IF r.raised THEN {Notice("warning", "api_route_error", 1)} ELSE {})
    /\ pc' = "fallback"
    /\ UNCHANGED <<inputVars, utilVars, i, markers, legend, groups, displayed, calls, fetchVars>>

\* 3. `if not line_added:` the dashed straight line and its warnings
P_Fallback ==
    /\ entry = "map" /\ pc = "fallback"
    /\ IF line_added
       THEN UNCHANGED <<polylines, notices>>
       ELSE /\ polylines' = Append(polylines,
                                   PolyLine(1, "fallback",
                                            FallbackPoints(start_coord, waypoints, end_coord),
                                            FallbackDash))
            /\ notices' = notices \cup {Notice("warning", "straight_line", 1)}
    /\ pc' = "final"
    /\ UNCHANGED <<inputVars, utilVars, i, line_added, markers, legend, groups, displayed, calls,
                   fetchVars>>

\* folium_static(m)
P_Display ==
    /\ entry = "map" /\ pc = "final"
    /\ displayed' = displayed + 1
    /\ pc' = "done"
    /\ UNCHANGED <<inputVars, utilVars, i, line_added, polylines, markers, legend, groups, calls,
                   notices, fetchVars>>

\* ------------------------------------------------ extract_route_coordinates
\* The value a helper returns: None or a value.
RetNone   == [isNone |-> TRUE, value |-> <<>>]
Ret(v)    == [isNone |-> FALSE, value |-> v]

\* [(coord[1], coord[0]) for coord in geom['coordinates']]
ExtractLine_NoSwap(coords) == [k \in 1..Len(coords) |-> <<coords[k][1], coords[k][2]>>]
ExtractLine(coords) == [k \in 1..Len(coords) |-> <<coords[k][2], coords[k][1]>>]

\* coords = []; for segment in geom['coordinates']: coords.extend([...])
RECURSIVE ExtractSegments(_)
ExtractSegments(segs) ==
    IF segs = <<>> THEN <<>>
    ELSE ExtractLine(Head(segs)) \o ExtractSegments(Tail(segs))

\* polyline.decode(text), for the encoded texts of the inputs
PolylineDecode(text) ==
    CASE text = "_ibE_seK_seK_seK" -> << <<1, 2>>, <<3, 4>> >>
      [] text = "_ibE_seK"         -> << <<1, 2>> >>

Step(outcome, value) == [outcome |-> outcome, value |-> value]

\* The body of `if 'geometry' in feature:` for one geometry: it returns a
\* list, raises, or falls through to the next feature.
ExtractGeometry(geom) ==
    IF ~geom.isObject \/ ~Has(geom, "type") THEN Step("raise", <<>>)
    ELSE IF geom.type = "LineString"
    THEN IF Has(geom, "coordinates") /\ geom.sized /\ CoordsOK(geom.coordinates)
         THEN Step("return", ExtractLine(geom.coordinates))
         ELSE Step("raise", <<>>)
    ELSE IF geom.type = "MultiLineString"
    THEN IF Has(geom, "coordinates") /\ geom.sized
            /\ \A k \in 1..Len(geom.segments) : CoordsOK(geom.segments[k])
         THEN Step("return", ExtractSegments(geom.segments))
         ELSE Step("raise", <<>>)
    ELSE Step("next", <<>>)

\* Método 1: `for feature in route_data['features']`
RECURSIVE ExtractFeatures(_, _)
ExtractFeatures(feats, k) ==
    IF k > Len(feats) THEN Step("next", <<>>)
    ELSE IF ~Has(feats[k], "geometry") THEN ExtractFeatures(feats, k + 1)
    ELSE LET r == ExtractGeometry(feats[k].geometry)
         IN  IF r.outcome = "next" THEN ExtractFeatures(feats, k + 1) ELSE r

\* Método 2: `if 'path' in route_data and len(route_data['path']) > 0`
ExtractPath(rd) ==
    IF Has(rd, "path") /\ Len(rd.path) > 0
    THEN IF \A k \in 1..Len(rd.path) : rd.path[k].isDict /\ HasCoords(rd.path[k])
         THEN Step("return", [k \in 1..Len(rd.path) |-> <<rd.path[k].lat, rd.path[k].lon>>])
         ELSE Step("raise", <<>>)
    ELSE Step("next", <<>>)

\* Método 3: `if 'polyline' in route_data and route_data['polyline']`
ExtractPolyline(rd) ==
    IF Has(rd, "polyline") /\ rd.polyline # ""
    THEN Step("return", PolylineDecode(rd.polyline))
    ELSE Step("next", <<>>)

\* extract_route_coordinates(route_data): the three methods in turn inside
\* one try; the handler logs and the function ends without a return value.
extract_route_coordinates(rd) ==
    LET m1 == IF Has(rd, "features") THEN ExtractFeatures(rd.features, 1)
              ELSE Step("next", <<>>)
        m2 == ExtractPath(rd)
        m3 == ExtractPolyline(rd)
        r  == IF m1.outcome # "next" THEN m1
              ELSE IF m2.outcome # "next" THEN m2
              ELSE m3
    IN  IF r.outcome = "return" THEN Ret(r.value) ELSE RetNone

\* ------------------------------------------------- direct calls of the helpers
\* vehicle model strings handed to get_vehicle_type
ModelStrings ==
    { NoneStr, StrVal(<<>>),
      StrVal(<<"U","n","o">>),
      StrVal(<<"B","u","s">>),
      StrVal(<<"Ô","N","I","B","U","S">>),
      StrVal(<<"M","i","c","r","o","-","o","n","i","b","u","s">>),
      StrVal(<<"M","i","n","i","b","u","s"," ","V","A","N">>),
      StrVal(<<"T","r","u","c","k"," ","B","U","S">>),
      StrVal(<<"M","o","t","o","b","u","s">>),
      StrVal(<<"S","p","r","i","n","t","e","r">>),
      StrVal(<<"D","U","C","A","T","O">>),
      StrVal(<<"K","o","m","b","i">>),
      StrVal(<<"B","o","x","e","r">>),
      StrVal(<<"V","a","n"," ","T","r","u","c","k">>),
      StrVal(<<"M","O","T","O"," ","V","A","N">>),
      StrVal(<<"C","a","m","i","n","h","ã","o">>),
      StrVal(<<"C","A","M","I","N","H","Ã","O">>),
      StrVal(<<"c","a","m","i","n","h","a","o">>),
      StrVal(<<"T","R","U","C","K"," ","b","i","k","e">>),
      StrVal(<<"M","o","t","o">>),
      StrVal(<<"B","I","K","E">>),
      StrVal(<<"m","o","t","o","r","c","y","c","l","e">>),
      StrVal(<<"b","u">>),
      StrVal(<<"v","a"," ","n">>) }

G_LineEmpty == Geometry("LineString", <<>>, <<>>)
G_Line3D    == Geometry("LineString", << <<2, 1, 9>>, <<4, 3, 9>> >>, <<>>)
G_MultiEmptySeg == Geometry("MultiLineString", <<>>, << <<>>, << <<4, 3>> >> >>)

WithPolyline(rd, text) == [rd EXCEPT !.keys = @ \cup {"polyline"}, !.polyline = text]

\* payloads handed to extract_route_coordinates
ExtractInputs ==
    { RouteData({"features"}, << Feature(g) >>, <<>>, NoneStr) :
        g \in { G_LineString, G_LineEmpty, G_Line3D, G_LineBad, G_LineNull, G_Multi,
                G_MultiPartial, G_MultiEmptySeg, G_Point, G_NoType, G_Null } }
    \cup
    { RouteData({"features", "path"}, << Feature(g) >>, << Pt(7, 8), Pt(9, 10) >>, NoneStr) :
        g \in { G_LineString, G_Multi, G_Point, G_NoType, G_Null, G_LineBad } }
    \cup
    { RouteData({"path"}, <<>>, path, NoneStr) :
        path \in { <<>>, << Pt(1, 2) >>, << Pt(1, 2), Pt(3, 4) >>, << Pt(0, 0) >>,
                   << Pt(1, 2), PtNoLat(4) >>, << NotADict >> } }
    \cup
    { NoRouteData,
      RouteData({"features"}, <<>>, <<>>, NoneStr),
      RouteData({"features"}, << Feature(G_Point), Feature(G_Multi) >>, <<>>, NoneStr),
      RouteData({"features"}, << F_NoGeometry, Feature(G_LineString) >>, <<>>, NoneStr),
      RouteData({"features"}, << Feature(G_Multi), Feature(G_LineString) >>, <<>>, NoneStr),
      RouteData({"features", "path"}, <<>>, << Pt(1, 2) >>, NoneStr),
      WithPolyline(NoRouteData, "_ibE_seK_seK_seK"),
      WithPolyline(NoRouteData, ""),
      WithPolyline(RouteData({"path"}, <<>>, <<>>, NoneStr), "_ibE_seK"),
      WithPolyline(RouteData({"path"}, <<>>, << Pt(3, 4) >>, NoneStr), "_ibE_seK"),
      WithPolyline(RouteData({"features"}, << Feature(G_Point) >>, <<>>, NoneStr),
                   "_ibE_seK_seK_seK"),
      WithPolyline(RouteData({"features"}, << Feature(G_LineEmpty) >>, <<>>, NoneStr),
                   "_ibE_seK") }

\* no renderer or fetcher arguments
NoRenderInputs ==
    /\ env = [set |-> FALSE, value |-> ""]
    /\ start_coord = NotADict /\ end_coord = NotADict
    /\ waypoints = <<>> /\ routes_info = <<>> /\ calls = <<0>>

\* no helper is called directly
NoHelperCall ==
    /\ vehicle_model = NoneStr /\ index = 0 /\ route_id = NoRouteId /\ ret = RetNone

\* a call get_vehicle_type(vehicle_model)
InitClassify ==
    /\ entry = "classify" /\ NoRenderInputs
    /\ vehicle_model \in ModelStrings
    /\ route_data = NoRouteData
    /\ index = 0 /\ route_id = NoRouteId /\ ret = RetNone

\* a call get_color_for_route(index, route_id)
InitColor ==
    /\ entry = "color" /\ NoRenderInputs
    /\ index \in (0 - MaxIndex)..MaxIndex
    /\ route_id \in RouteIds
    /\ route_data = NoRouteData
    /\ vehicle_model = NoneStr /\ ret = RetNone

\* a call get_line_style(index)
InitStyle ==
    /\ entry = "style" /\ NoRenderInputs
    /\ index \in (0 - MaxIndex)..MaxIndex
    /\ route_id = NoRouteId
    /\ route_data = NoRouteData
    /\ vehicle_model = NoneStr /\ ret = RetNone

\* a call extract_route_coordinates(route_data)
InitExtract ==
    /\ entry = "extract" /\ NoRenderInputs
    /\ route_data \in ExtractInputs
    /\ vehicle_model = NoneStr /\ index = 0 /\ route_id = NoRouteId /\ ret = RetNone

U_Frame ==
    UNCHANGED <<inputVars, vehicle_model, index, route_id, i, line_added, polylines,
                markers, legend, groups, displayed, calls, notices, fetchVars>>

U_Classify ==
    /\ entry = "classify" /\ pc = "start"
    /\ ret' = Ret(get_vehicle_type(vehicle_model))
    /\ pc' = "done"
    /\ U_Frame

U_Color ==
    /\ entry = "color" /\ pc = "start"
    /\ ret' = Ret(get_color_for_route(index, route_id))
    /\ pc' = "done"
    /\ U_Frame

U_Style ==
    /\ entry = "style" /\ pc = "start"
    /\ ret' = Ret(get_line_style(index))
    /\ pc' = "done"
    /\ U_Frame

U_Extract ==
    /\ entry = "extract" /\ pc = "start"
    /\ ret' = extract_route_coordinates(route_data)
    /\ pc' = "done"
    /\ U_Frame

\* ------------------------------------------------------------ specification
Init ==
    /\ InitCommon /\ f_args = NoArgs
    /\ \/ NoHelperCall /\ (InitFetch \/ InitSingle \/ InitMap \/ InitMulti)
       \/ InitClassify \/ InitColor \/ InitStyle \/ InitExtract

Next ==
    \/ FetchEnter \/ FetchAttempt
    \/ D_Call \/ D_Return
    \/ S_Markers \/ S_CallFetch \/ S_DrawApi \/ S_DrawEmbedded \/ S_Fallback \/ S_Display
    \/ P_Begin \/ P_DrawGeometry \/ P_CallFetch \/ P_DrawApi \/ P_Fallback \/ P_Display
    \/ M_Begin \/ M_Legend \/ M_Markers \/ M_Embedded \/ M_CallFetch \/ M_DrawApi
    \/ M_Fallback \/ M_AddGroup \/ M_Finish
    \/ U_Classify \/ U_Color \/ U_Style \/ U_Extract

Spec == Init /\ [][Next]_vars

\* ------------------------------------------------------------------ claims
\* The route being processed, and the point where it is finally rendered:
\* folium_static(m) in display_route_on_map, route_group.add_to(m) in
\* display_multiple_routes_on_map.
AtFinalRendering ==
    \/ entry = "single" /\ pc = "final"
    \/ entry = "multi" /\ pc = "add_group"

\* ... and the same point of display_route_map as well
AtFinalRenderingAny == AtFinalRendering \/ (entry = "map" /\ pc = "final")

CurRouteData  == IF entry = "multi" THEN Cur.route_data ELSE route_data
CurWaypoints  == IF entry = "multi" THEN Cur.passengers ELSE waypoints

LinesOf(route, sources) ==
    SelectSeq(polylines, LAMBDA p : p.route = route /\ p.source \in sources)

OutcomeKinds == [k \in 1..Len(outcomes) |-> outcomes[k].kind]

IsLineType(g) == g.isObject /\ TypeOf(g) \in {"LineString", "MultiLineString"}

WellFormedLine(g) ==
    /\ IsLineType(g) /\ Has(g, "coordinates") /\ g.sized
    /\ CoordsOK(g.coordinates)
    /\ \A k \in 1..Len(g.segments) : CoordsOK(g.segments[k])

\* C1: every route that reaches final rendering has line_added = TRUE.
C1_LineAddedAtFinalRendering == AtFinalRendering => line_added

\* C2: when get_route_geometry was called for the route and returned a success
\* response whose first feature carries (well-formed) LineString or
\* MultiLineString geometry, the route is finally rendered with a polyline
\* drawn from the fetched geometry and without the straight-line fallback.
C2_FetchedGeometryIsRendered ==
    ( /\ AtFinalRenderingAny
      /\ calls[i] > 0 /\ f_pc = "returned" /\ ~f_result.isNone
      /\ WellFormedLine(f_result.data.features[1].geometry) )
    => /\ LinesOf(i, {"api"}) # <<>>
       /\ LinesOf(i, {"fallback"}) = <<>>

\* C3: when no real geometry is obtained for a route (the fetch gave nothing
\* and the embedded data holds no line geometry), the route is finally
\* rendered with exactly one dashed straight-line polyline whose points are
\* the origin, every waypoint in its given order, the destination (n + 2
\* points), and the approximation warning was shown for that route.
HasEmbeddedLine(rd) ==
    \/ Has(rd, "features")
       /\ \E k \in 1..Len(rd.features) :
            Has(rd.features[k], "geometry") /\ IsLineType(rd.features[k].geometry)
    \/ Has(rd, "path") /\ Len(rd.path) > 1
    \/ Has(rd, "geometry") /\ IsLineType(rd.geometry)

NoRealGeometry ==
    /\ calls[i] > 0
    /\ f_pc = "raised" \/ (f_pc = "returned" /\ f_result.isNone)
    /\ ~HasEmbeddedLine(CurRouteData)

C3_FallbackIsStraightLineThroughAllStops ==
    (AtFinalRenderingAny /\ NoRealGeometry) =>
        LET fb == LinesOf(i, {"fallback"})
            n  == Len(CurWaypoints)
        IN  /\ Len(fb) = 1
            /\ LinesOf(i, {"api", "features", "path", "geometry"}) = <<>>
            /\ fb[1].dash = FallbackDash
            /\ Len(fb[1].points) = n + 2
            /\ fb[1].points[1] = <<start_coord.lat, start_coord.lon>>
            /\ \A k \in 1..n :
                 fb[1].points[k + 1] = <<CurWaypoints[k].lat, CurWaypoints[k].lon>>
            /\ fb[1].points[n + 2] = <<end_coord.lat, end_coord.lon>>
            /\ Notice("warning", "straight_line", i) \in notices

C3_Witness_OneWaypointThreePoints ==
    /\ AtFinalRenderingAny /\ NoRealGeometry
    /\ Len(CurWaypoints) = 1
    /\ Len(LinesOf(i, {"fallback"})) = 1
    /\ Len(LinesOf(i, {"fallback"})[1].points) = 3

C3_Witness_FalsyWaypointKept ==
    /\ AtFinalRenderingAny /\ NoRealGeometry
    /\ \E k \in 1..Len(CurWaypoints) : CurWaypoints[k].lat = 0
    /\ Len(LinesOf(i, {"fallback"})) = 1

\* C4: in display_multiple_routes_on_map an exception raised while drawing an
\* element of route i does not stop the later routes: when the function has
\* ended, every route after the one that raised has its layer group on the map.
C4_LaterRoutesStillGetTheirGroup ==
    (entry = "multi" /\ pc = "aborted") =>
        \A k \in (i + 1)..Len(routes_info) :
            \E g \in 1..Len(groups) : groups[g].rota = k

\* C5: when every request times out, the fetch makes exactly 3 requests, sleeps
\* 2 s after the first and 4 s after the second, not after the third, and
\* returns None; the summed backoff of one fetch never exceeds 6 s.
AllTimeouts == \A k \in 1..Len(outcomes) : outcomes[k].kind = "timeout"

TraceShape == [k \in 1..Len(trace) |-> <<trace[k].op, trace[k].secs>>]

C5_ThreeTimeoutsBackoff ==
    /\ (outcomes # <<>> /\ AllTimeouts /\ Len(outcomes) < 3) => f_pc = "loop"
    /\ (f_pc = "returned" /\ outcomes # <<>> /\ AllTimeouts) =>
         /\ TraceShape = << <<"request", 10>>, <<"sleep", 2>>, <<"request", 10>>,
                            <<"sleep", 4>>, <<"request", 10>> >>
         /\ f_result = None
    /\ SumSeq([k \in 1..Len(Sleeps) |-> Sleeps[k].secs]) <= 6

C5_Witness_ThreeTimeouts ==
    /\ f_pc = "returned"
    /\ Len(outcomes) = 3 /\ AllTimeouts
    /\ Len(Sleeps) = 2

\* C6: an HTTP error response ends the fetch: no further request is made and
\* None is returned; when the first request gets it, exactly one request was
\* made and no sleep occurred.
C6_HttpErrorIsNotRetried ==
    \A k \in 1..Len(outcomes) :
        outcomes[k].kind = "http_error" =>
            /\ k = Len(outcomes)
            /\ f_pc = "returned"
            /\ f_result = None
            /\ Len(Requests) = k
            /\ (k = 1 => trace = << RequestEvent(Requests[1].params) >>)

C6_Witness_HttpErrorFirst ==
    /\ f_pc = "returned"
    /\ Len(outcomes) = 1 /\ outcomes[1].kind = "http_error"
    /\ Len(Requests) = 1 /\ Sleeps = <<>>

\* C7: the fetch makes at most 3 requests, and one more request is made only
\* after a timeout: once it has returned from the retry loop the number of
\* requests is min(3, 1 + number of leading timeouts).
RECURSIVE LeadingTimeouts(_)
LeadingTimeouts(kinds) ==
    IF kinds = <<>> \/ Head(kinds) # "timeout" THEN 0
    ELSE 1 + LeadingTimeouts(Tail(kinds))

C7_RequestsAreOnePlusLeadingTimeouts ==
    /\ Len(Requests) <= 3
    /\ Len(Requests) = Len(outcomes)
    /\ f_pc = "loop" => (attempt < 3 /\ AllTimeouts /\ Len(Requests) = attempt)
    /\ (f_pc = "returned" /\ outcomes # <<>>) =>
         Len(Requests) = Min(3, 1 + LeadingTimeouts(OutcomeKinds))

C7_Witness_TimeoutThenOtherError ==
    /\ f_pc = "returned"
    /\ OutcomeKinds = <<"timeout", "other">>
    /\ Len(Requests) = 2

\* C8: with GEOAPIFY_API_KEY absent or empty, get_route_geometry makes no
\* request and returns None with a warning, whatever its arguments; the
\* calling renderer goes on: the route is finally rendered without a fetched
\* line, with its embedded line or the straight-line fallback, and the only
\* abort after the call is the one embedded data causes.
KeyAbsent == ~env.set \/ env.value = ""

HasNonDictGeometry(rd) ==
    /\ Has(rd, "features")
    /\ \E k \in 1..Len(rd.features) :
         Has(rd.features[k], "geometry") /\ ~rd.features[k].geometry.isObject

C8_NoKeyNoRequestAndFallback ==
    KeyAbsent =>
        /\ trace = <<>> /\ outcomes = <<>>
        /\ f_pc \in {"idle", "called", "returned"}
        /\ f_pc = "returned" =>
             /\ f_result = None
             /\ Notice("warning", "no_api_key", i) \in notices
        /\ (AtFinalRenderingAny /\ calls[i] > 0) =>
             /\ LinesOf(i, {"api"}) = <<>>
             /\ LinesOf(i, {"fallback"}) # <<>> \/ HasEmbeddedLine(CurRouteData)
        /\ (entry \in {"single", "map", "multi"} /\ pc = "aborted" /\ calls[i] > 0) =>
             HasNonDictGeometry(CurRouteData)

C8_Witness_EmptyKeyFallback ==
    /\ env = [set |-> TRUE, value |-> ""]
    /\ AtFinalRenderingAny /\ calls[i] > 0
    /\ f_pc = "returned" /\ f_result = None
    /\ LinesOf(i, {"fallback"}) # <<>>

\* C9: get_route_geometry returns a success value exactly when its last
\* request completed and the decoded body has a non-empty 'features' list
\* whose first feature has a geometry object, and the value is then that body.
LastOutcome == outcomes[Len(outcomes)]

HasGeometryObject(data) ==
    /\ Has(data, "features") /\ Len(data.features) > 0
    /\ Has(data.features[1], "geometry")
    /\ data.features[1].geometry.isObject

C9_SuccessIffGeometryObject ==
    (f_pc = "returned" /\ outcomes # <<>>) =>
        /\ ~f_result.isNone <=>
             (LastOutcome.kind = "ok" /\ HasGeometryObject(LastOutcome.body))
        /\ ~f_result.isNone => f_result.data = LastOutcome.body

\* C10: the mode parameter of every request is 'truck' for category truck,
\* 'motorcycle' for motorcycle and 'drive' for every other category, in any
\* letter case.
TruckSpellings == { W_truck, <<"T","R","U","C","K">>, <<"T","r","u","c","k">> }
MotorcycleSpellings == { W_motorcycle, <<"M","o","t","o","r","C","y","c","l","e">> }

C10_TravelModeByCategory ==
    \A k \in 1..Len(Requests) :
        LET vt == f_args.vehicle_type.chars
        IN  Requests[k].params.mode =
                IF vt \in TruckSpellings THEN "truck"
                ELSE IF vt \in MotorcycleSpellings THEN "motorcycle"
                ELSE "drive"

C10_Witness_UpperCaseTruck ==
    /\ Requests # <<>>
    /\ f_args.vehicle_type.chars = <<"T","R","U","C","K">>
    /\ Requests[1].params.mode = "truck"

\* A helper called directly has returned.
Returned(fn) == entry = fn /\ pc = "done"

\* C11: get_vehicle_type returns the first category, in the order bus, van,
\* truck, motorcycle, one of whose keywords occurs in the model string in any
\* letter case, and car when none occurs, also for the empty string and None.
SameLetter(a, b) ==
    \/ a = b
    \/ \E k \in 1..Len(UpperChars) : {a, b} = {UpperChars[k], LowerChars[k]}

OccursAnyCase(s, kw) ==
    \E k \in 0..(Len(s) - Len(kw)) : \A j \in 1..Len(kw) : SameLetter(s[k + j], kw[j])

Mentions(s, kws) == \E kw \in kws : OccursAnyCase(s, kw)

C11_FirstCategoryInOrderWins ==
    Returned("classify") =>
        LET m == vehicle_model.chars
            r == ret.value
        IN  /\ ~ret.isNone
            /\ r \in {W_bus, W_van, W_truck, W_motorcycle, W_car}
            /\ Mentions(m, BusKeywords) => r = W_bus
            /\ (~Mentions(m, BusKeywords) /\ Mentions(m, VanKeywords)) => r = W_van
            /\ ( /\ ~Mentions(m, BusKeywords) /\ ~Mentions(m, VanKeywords)
                 /\ Mentions(m, TruckKeywords) ) => r = W_truck
            /\ ( /\ ~Mentions(m, BusKeywords) /\ ~Mentions(m, VanKeywords)
                 /\ ~Mentions(m, TruckKeywords) /\ Mentions(m, MotoKeywords) )
                 => r = W_motorcycle
            /\ ( /\ ~Mentions(m, BusKeywords) /\ ~Mentions(m, VanKeywords)
                 /\ ~Mentions(m, TruckKeywords) /\ ~Mentions(m, MotoKeywords) )
                 => r = W_car
            /\ (~vehicle_model.isStr \/ m = <<>>) => r = W_car

C11_Witness_BusBeatsVan ==
    /\ Returned("classify")
    /\ vehicle_model = StrVal(<<"M","i","n","i","b","u","s"," ","V","A","N">>)
    /\ ret.value = W_bus

C11_Witness_NoneIsCar ==
    /\ Returned("classify") /\ vehicle_model = NoneStr /\ ret.value = W_car

\* C12: get_color_for_route always returns a palette entry; for a given
\* route_id the colour is the same for every index; with no route_id it is the
\* palette entry at index mod 20, so index and index + 20 give the same colour.
Palette == { DISTINCT_COLORS[k] : k \in 1..Len(DISTINCT_COLORS) }

C12_ColorByRouteIdElseIndexMod20 ==
    Returned("color") =>
        /\ ret.value \in Palette
        /\ Len(DISTINCT_COLORS) = 20
        /\ ~route_id.isNone =>
             \A j \in (0 - MaxIndex)..MaxIndex :
                 get_color_for_route(j, route_id) = ret.value
        /\ route_id.isNone =>
             /\ ret.value = DISTINCT_COLORS[(index % 20) + 1]
             /\ get_color_for_route(index + 20, route_id) = ret.value

\* C13: get_line_style returns one of the 4 fixed dash patterns, index and
\* index + 4 give the same pattern, and indices 0..3 give 4 different ones.
C13_LineStylePeriodFour ==
    Returned("style") =>
        /\ \E k \in 1..4 : ret.value = LINE_STYLES[k]
        /\ Len(LINE_STYLES) = 4
        /\ ret.value = get_line_style(index + 4)
        /\ \A a, b \in 0..3 : a # b => get_line_style(a) # get_line_style(b)
        /\ index \in 0..3 => ret.value = LINE_STYLES[index + 1]

C13_Witness_IndexFive ==
    /\ Returned("style") /\ index = 5
    /\ ret.value = "10, 10"
    /\ get_line_style(1) = "10, 10" /\ get_line_style(9) = "10, 10"

\* The first feature of a payload that carries line geometry (0 when none).
FirstLineFeature(rd) ==
    IF Has(rd, "features")
       /\ \E k \in 1..Len(rd.features) :
            Has(rd.features[k], "geometry") /\ IsLineType(rd.features[k].geometry)
    THEN CHOOSE k \in 1..Len(rd.features) :
            /\ Has(rd.features[k], "geometry") /\ IsLineType(rd.features[k].geometry)
            /\ \A j \in 1..(k - 1) :
                 ~(Has(rd.features[j], "geometry") /\ IsLineType(rd.features[j].geometry))
    ELSE 0

\* A GeoJSON payload: every geometry before the first line geometry is a typed
\* object and that line geometry is well formed.
GeoJSONPayload(rd) ==
    /\ FirstLineFeature(rd) > 0
    /\ WellFormedLine(rd.features[FirstLineFeature(rd)].geometry)
    /\ \A j \in 1..(FirstLineFeature(rd) - 1) :
         Has(rd.features[j], "geometry") =>
            (rd.features[j].geometry.isObject /\ Has(rd.features[j].geometry, "type"))

SegmentLengths(segs) == [k \in 1..Len(segs) |-> Len(segs[k])]
SegmentOffset(segs, n) == SumSeq(SubSeq(SegmentLengths(segs), 1, n - 1))

\* the coordinates of a line geometry, swapped to (lat, lon), in listed order
IsSwappedLine(value, coords) ==
    /\ Len(value) = Len(coords)
    /\ \A k \in 1..Len(coords) : value[k] = <<coords[k][2], coords[k][1]>>

IsSwappedSegments(value, segs) ==
    /\ Len(value) = SumSeq(SegmentLengths(segs))
    /\ \A n \in 1..Len(segs) : \A k \in 1..Len(segs[n]) :
         value[SegmentOffset(segs, n) + k] = <<segs[n][k][2], segs[n][k][1]>>

IsExtractedFrom(value, g) ==
    IF g.type = "LineString" THEN IsSwappedLine(value, g.coordinates)
    ELSE IsSwappedSegments(value, g.segments)

\* C14: for a GeoJSON payload extract_route_coordinates returns the
\* coordinates in listed order, each [lon, lat] swapped to (lat, lon): a
\* LineString gives a list as long as its coordinates ([[2,1],[4,3]] gives
\* [(1,2),(3,4)]), a MultiLineString the concatenation of its segments.
C14_GeoJSONCoordinatesSwappedInOrder ==
    (Returned("extract") /\ GeoJSONPayload(route_data)) =>
        LET g == route_data.features[FirstLineFeature(route_data)].geometry
        IN  /\ ~ret.isNone
            /\ IsExtractedFrom(ret.value, g)
            /\ g.coordinates = << <<2, 1>>, <<4, 3>> >> =>
                 ret.value = << <<1, 2>>, <<3, 4>> >>
            /\ g.segments = << << <<2, 1>> >>, << <<4, 3>>, <<6, 5>> >> >> =>
                 ret.value = << <<1, 2>>, <<3, 4>>, <<5, 6>> >>

C14_Witness_LineStringSwapped ==
    /\ Returned("extract")
    /\ route_data.features = << Feature(G_LineString) >>
    /\ G_LineString.coordinates = << <<2, 1>>, <<4, 3>> >>
    /\ ret = Ret(<< <<1, 2>>, <<3, 4>> >>)

C14_Witness_MultiConcatenated ==
    /\ Returned("extract")
    /\ route_data.features = << Feature(G_Point), Feature(G_Multi) >>
    /\ ret = Ret(<< <<1, 2>>, <<3, 4>>, <<5, 6>> >>)

\* C15: the shapes are tried in the order feature line geometry, 'path' list,
\* encoded polyline and the first that matches gives the result; None is
\* returned only when none matches; an empty coordinate list or an empty
\* 'path' list gives an empty list; a feature whose geometry is no line type
\* does not keep the later shapes from being tried.
PathPointsOK(rd) == \A k \in 1..Len(rd.path) : rd.path[k].isDict /\ HasCoords(rd.path[k])

\* a line geometry or path entry that cannot be converted at all
Unconvertible(rd) ==
    \/ FirstLineFeature(rd) > 0
       /\ ~WellFormedLine(rd.features[FirstLineFeature(rd)].geometry)
    \/ FirstLineFeature(rd) = 0 /\ Has(rd, "path") /\ ~PathPointsOK(rd)

C15_FirstMatchingShapeWins ==
    (Returned("extract") /\ ~Unconvertible(route_data)) =>
        IF FirstLineFeature(route_data) > 0
        THEN /\ ~ret.isNone
             /\ IsExtractedFrom(ret.value,
                                 route_data.features[FirstLineFeature(route_data)].geometry)
        ELSE IF Has(route_data, "path")
        THEN ret = Ret([k \in 1..Len(route_data.path) |->
                           <<route_data.path[k].lat, route_data.path[k].lon>>])
        ELSE IF Has(route_data, "polyline") /\ route_data.polyline # ""
        THEN ret = Ret(PolylineDecode(route_data.polyline))
        ELSE ret.isNone

\* C16: display_multiple_routes_on_map processes the routes one at a time in
\* list order: whatever has been put on the map (legend entries, markers,
\* polylines, fetches, layer groups) belongs to routes 1..i in that order with
\* nothing of a later route, the routes before i are finished, and when the
\* function completes every route's layer group has been added exactly once.
NonDecreasing(q) == \A a, b \in 1..Len(q) : a < b => q[a] <= q[b]

InRoute == pc \in {"legend", "markers", "embedded", "fetch", "api", "fallback", "add_group"}

C16_RoutesOneAtATimeInListOrder ==
    entry = "multi" =>
        LET n == Len(routes_info)
        IN  /\ \A k \in 1..Len(groups) : groups[k].rota = k
            /\ \A k \in 1..Len(legend) : legend[k].group_name.rota = k
            /\ NonDecreasing([k \in 1..Len(markers) |-> markers[k].route])
            /\ NonDecreasing([k \in 1..Len(polylines) |-> polylines[k].route])
            /\ \A k \in 1..Len(markers) : markers[k].route <= i
            /\ \A k \in 1..Len(polylines) : polylines[k].route \in 1..i
            /\ \A k \in 1..n : k > i => calls[k] = 0
            /\ (InRoute \/ pc = "aborted") => (i \in 1..n /\ Len(groups) = i - 1)
            /\ pc = "legend" =>
                 /\ Len(legend) = i - 1 /\ calls[i] = 0
                 /\ \A k \in 1..Len(markers) : markers[k].route < i
                 /\ \A k \in 1..Len(polylines) : polylines[k].route < i
            /\ (InRoute /\ pc # "legend") => Len(legend) = i
            /\ f_pc # "idle" => pc \in {"api", "fallback", "add_group"}
            /\ pc \in {"finish", "done"} =>
                 /\ i = n + 1
                 /\ Len(groups) = n /\ Len(legend) = n

C16_Witness_TwoRoutesBothFetched ==
    /\ entry = "multi" /\ pc = "done"
    /\ Len(routes_info) = 2
    /\ calls = <<1, 1>>
    /\ Len(groups) = 2 /\ groups[1].rota = 1 /\ groups[2].rota = 2
    /\ LinesOf(1, {"fallback"}) # <<>> /\ LinesOf(2, {"fallback"}) # <<>>

\* C17: in display_route_on_map, whatever the geometry fetch and the path
\* drawing do, no failure propagates once the fetch has been attempted: the
\* function reaches the final step and displays the map exactly once, with
\* the start and end markers on it.
C17_SingleRouteAlwaysDisplaysOnce ==
    entry = "single" =>
        /\ calls[1] > 0 => pc # "aborted"
        /\ displayed <= 1
        /\ pc = "done" =>
             /\ displayed = 1
             /\ Len(markers) >= 2
             /\ markers[1] = Marker(1, start_coord) /\ markers[2] = Marker(1, end_coord)

\* C18: the 'waypoints' parameter of every request is the origin, then exactly
\* the intermediate waypoints with valid coordinates (a dict with non-falsy
\* lat and lon) in their original order, then the destination: k valid
\* intermediates give k + 2 entries.
HasValidCoordinates(wp) ==
    wp.isDict /\ "lat" \in wp.keys /\ "lon" \in wp.keys /\ wp.lat # 0 /\ wp.lon # 0

RECURSIVE KeepValid(_)
KeepValid(wps) ==
    IF wps = <<>> THEN <<>>
    ELSE IF HasValidCoordinates(Head(wps)) THEN <<Head(wps)>> \o KeepValid(Tail(wps))
    ELSE KeepValid(Tail(wps))

C18_WaypointsParamOriginValidStopsDestination ==
    \A r \in 1..Len(Requests) :
        LET entries == Requests[r].params.waypoints
            mid     == KeepValid(f_args.waypoints)
            k       == Len(mid)
        IN  /\ Len(entries) = k + 2
            /\ entries[1] = <<f_args.start_point.lat, f_args.start_point.lon>>
            /\ \A j \in 1..k : entries[j + 1] = <<mid[j].lat, mid[j].lon>>
            /\ entries[k + 2] = <<f_args.end_point.lat, f_args.end_point.lon>>

C18_Witness_InvalidStopDropped ==
    /\ Requests # <<>>
    /\ f_args.waypoints = << NotADict, Pt(3, 4), Pt(1, 2) >>
    /\ Requests[1].params.waypoints = << <<5, 6>>, <<3, 4>>, <<1, 2>>, <<7, 8>> >>

\* The polylines on the map, as (route, position of the source in `order`).
SourcePosition(src, order) == CHOOSE k \in 1..Len(order) : order[k] = src
DrawingOrder(order) ==
    [k \in 1..Len(polylines) |->
        polylines[k].route * 10 + SourcePosition(polylines[k].source, order)]

RealRouteShown == Notice("success", "real_route", 1) \in notices

C19_Witness_EmbeddedAfterFailedFetch ==
    /\ entry = "single" /\ pc = "final"
    /\ calls[1] = 1 /\ f_result = None
    /\ LinesOf(1, {"features"}) # <<>>
    /\ LinesOf(1, {"api", "fallback"}) = <<>>

\* C20: display_multiple_routes_on_map tries the sources of each route in the
\* order embedded 'features', embedded 'path', live fetch, straight line; a
\* route whose embedded features or path yielded its line (line_added set)
\* gets no fetch and no request, and no route is fetched more than once.
EmbeddedWarned(route) ==
    \/ Notice("warning", "geometry_error", route) \in notices
    \/ Notice("warning", "path_error", route) \in notices

C20_Witness_PathThenNoFetch ==
    /\ entry = "multi" /\ pc = "add_group"
    /\ env = [set |-> TRUE, value |-> "k"]
    /\ LinesOf(i, {"path"}) # <<>>
    /\ calls[i] = 0

\* C21: in the multi-route legend every control of route i passes the name of
\* route i's layer group to toggleRouteVisibility: the per-route checkbox and
\* the 'Mostrar Todas' / 'Ocultar Todas' buttons alike.
C21_LegendControlsNameTheirOwnGroup ==
    (entry = "multi" /\ pc = "done") =>
        \A k \in 1..Len(groups) :
            /\ legend[k].group_name = groups[k]
            /\ ToggleAllGroupName(legend[k].checkbox_id) = groups[k]

\* C22: no route, in any renderer and for any input geometry, has on the map
\* both a polyline drawn from fetched or embedded geometry and the dashed
\* straight-line fallback polyline.
RoutesOnMap == { polylines[k].route : k \in 1..Len(polylines) }

C22_RealLineAndFallbackNeverBoth ==
    entry \in {"single", "map", "multi"} =>
        \A r \in RoutesOnMap :
            ~( /\ LinesOf(r, {"api", "features", "path", "geometry"}) # <<>>
               /\ LinesOf(r, {"fallback"}) # <<>> )

\* p is q with some entries left out
RECURSIVE IsSubsequence(_, _)
IsSubsequence(p, q) ==
    IF p = <<>> THEN TRUE
    ELSE IF q = <<>> THEN FALSE
    ELSE IF Head(p) = Head(q) THEN IsSubsequence(Tail(p), Tail(q))
    ELSE IsSubsequence(p, Tail(q))

\* The intermediate points of the current route: in its request, on its
\* markers, and in its straight-line fallback.
RequestStops == SubSeq(Requests[1].params.waypoints, 2,
                       Len(Requests[1].params.waypoints) - 1)

RouteMarkers == SelectSeq(markers, LAMBDA mk : mk.route = i)

MarkerStops ==
    LET own == IF entry = "multi" THEN RouteMarkers
               ELSE SubSeq(RouteMarkers, 3, Len(RouteMarkers))
    IN  [k \in 1..Len(own) |-> own[k].location]

FallbackStops ==
    LET pts == LinesOf(i, {"fallback"})[1].points
    IN  SubSeq(pts, 2, Len(pts) - 1)

FalsyStops == { k \in 1..Len(CurWaypoints) : CurWaypoints[k].lat = 0 \/ CurWaypoints[k].lon = 0 }

\* C23: a waypoint with a falsy latitude or longitude is left out of the
\* routing request but still gets its marker and is still a vertex of the
\* straight-line fallback: the request's intermediate points are a
\* subsequence of the points drawn for the route, and not always all of them.
C23_FalsyStopOnlyMissingFromRequest ==
    (entry \in {"single", "map", "multi"} /\ Requests # <<>>) =>
        LET stops == [k \in 1..Len(CurWaypoints) |->
                         <<CurWaypoints[k].lat, CurWaypoints[k].lon>>]
        IN  /\ MarkerStops = stops
            /\ IsSubsequence(RequestStops, MarkerStops)
            /\ Len(RequestStops) = Len(stops) - Cardinality(FalsyStops)
            /\ \A k \in 1..Len(RequestStops) :
                 RequestStops[k][1] # 0 /\ RequestStops[k][2] # 0
            /\ LinesOf(i, {"fallback"}) # <<>> =>
                 /\ FallbackStops = stops
                 /\ IsSubsequence(RequestStops, FallbackStops)

C23_Witness_FalsyStopDrawnNotRequested ==
    /\ entry \in {"single", "multi"} /\ Requests # <<>>
    /\ FalsyStops # {}
    /\ LinesOf(i, {"fallback"}) # <<>>
    /\ FallbackStops = << <<0, 2>>, <<3, 4>> >>
    /\ MarkerStops = << <<0, 2>>, <<3, 4>> >>
    /\ RequestStops = << <<3, 4>> >>

====
